---- MODULE Spec2Model ----
(***************************************************************************)
(* gitspoke (src/src/gitspoke/cli.py): the resumable archive run of        *)
(* Downloader.download_repo over one output directory, and the retry loop  *)
(* of GitHubAPI.request.                                                    *)
(*                                                                         *)
(* Spec        : any number of runs of download_repo on one directory; a   *)
(*               run can be killed at any step, and the remote answers     *)
(*               each request in any of the ways it can.                   *)
(* SpecRequest : one call of GitHubAPI.request against every sequence of   *)
(*               server responses.                                         *)
(* SpecPaginate: one walk of GitHubAPI.paginate over every listing.        *)
(* SpecUpgrade : Spec, also from a directory an earlier release has left.  *)
(* SpecManifestSuccess : one call of Downloader.manifest_success.          *)
(* SpecFetch   : the fetch of one catalog item in write_api_response.      *)
(***************************************************************************)
EXTENDS Integers, Sequences, FiniteSets, TLC

\* ------------------------------------------------------------- the catalog

\* cli.py:18-37.  Sixteen of the eighteen rows carry no option other than
\* list_key and take the same path through write_api_response; the model
\* keeps the row labels of those, and the two rows with the options
\* expect_404 and paginate (pages, languages), in the order of the source.
endpoints ==
  << [name |-> "labels",    paginate |-> TRUE,  expect_404 |-> FALSE],
     [name |-> "pages",     paginate |-> TRUE,  expect_404 |-> TRUE],
     [name |-> "languages", paginate |-> FALSE, expect_404 |-> FALSE] >>

EndpointNames == { endpoints[i].name : i \in 1..Len(endpoints) }

MirrorItems == {"bundle", "wiki"}

\* The order in which download_repo comes to the items after repo_info
\* (cli.py:327-345): bundle, wiki, readme, then the catalog rows.  An item
\* goes by the name the inclusion set has for it; the manifest key of
\* "bundle" is the stem of git.bundle, "git" (cli.py:215).
Order == <<"bundle", "wiki", "readme">> \o [i \in 1..Len(endpoints) |-> endpoints[i].name]

Items == {"repo_info"} \cup { Order[i] : i \in 1..Len(Order) }

\* cli.py:39-41
valid_include_items == {"all"} \cup Items

\* The inclusion sets the runs are given (each a subset of valid_include_items).
IncludeSets ==
  { {"all"},
    {"labels", "languages"},
    {"bundle", "wiki", "readme", "pages"} }

Endpoint(item) == CHOOSE e \in { endpoints[i] : i \in 1..Len(endpoints) } : e.name = item


\* ------------------------------------------------------- the manifest store

\* Times are kept relative to the run at hand: "before" is any time before
\* the run started, "now" a time during the run (time.gmtime(), cli.py:142;
\* the mtime of a file the run writes).  The code copies times and never
\* compares them.  An absent entry or file has the time "none".

NoEntry == [status |-> "none", timestamp |-> "none"]

NoFile == [state |-> "absent", mtime |-> "none"]

\* A new run starts: every time in the directory is a time before it.
older(t) == IF t = "none" THEN "none" ELSE "before"

EmptyEntries == [i \in Items |-> NoEntry]

\* cli.py:139-144.  ts is the timestamp argument, or the current time.
update_manifest(entries, item, status, ts) ==
  [entries EXCEPT ![item] = [status |-> status, timestamp |-> ts]]

\* in_manifest with a fault: only a "success" entry counts as done.
in_manifest_success_only(entries, item) ==
  entries[item].status = "success"

\* in_manifest with a fault: any entry counts as done, an "error" entry too.
in_manifest_any(entries, item) ==
  entries[item].status # "none"

\* cli.py:166: the item has an entry and its status is not "error".
in_manifest(entries, item) ==
  entries[item].status # "none" /\ entries[item].status # "error"

\* cli.py:169: path.exists()
exists(file) == file.state # "absent"

\* manifest_success with a fault: the manifest is not consulted, only the file.
manifest_success_file_only(entries, item, file) ==
  IF exists(file)
    THEN [done |-> TRUE,
          entries |-> update_manifest(entries, item, "success", file.mtime)]
    ELSE [done |-> FALSE, entries |-> entries]

\* manifest_success with a fault: the backfilled entry gets the current time,
\* not the modification time of the file.
manifest_success_stamps_now(entries, item, file) ==
  IF in_manifest(entries, item)
    THEN [done |-> TRUE, entries |-> entries]
    ELSE IF exists(file)
      THEN [done |-> TRUE,
            entries |-> update_manifest(entries, item, "success", "now")]
      ELSE [done |-> FALSE, entries |-> entries]

\* cli.py:164-176.  The result and the manifest entries it leaves.
manifest_success(entries, item, file) ==
  IF in_manifest(entries, item)
    THEN [done |-> TRUE, entries |-> entries]
    ELSE IF exists(file)
      THEN [done |-> TRUE,
            entries |-> update_manifest(entries, item, "success", file.mtime)]
      ELSE [done |-> FALSE, entries |-> entries]

\* cli.py:148: "user_agent" not in self.manifest or self.manifest !=
\* self.original_manifest.  original_manifest is a shallow copy (cli.py:162):
\* its "entries" is the very dict the run updates, so the two compare
\* different only when their user_agent differs.
needs_stamp(m, original_user_agent) ==
  m.user_agent = "none" \/ m.user_agent # original_user_agent

\* src/src/gitspoke/__init__.py:7-10
CurrentUserAgent == "gitspoke/current"

\* ------------------------------------------------------------ the selection

\* Selected with a fault: the inclusion set is not consulted.
Selected_everything(item, S, info) == TRUE

\* cli.py:328, 332, 336, 344.  At 332 "and" binds tighter than "or".
Selected(item, S, info) ==
  CASE item = "bundle" -> "all" \in S \/ "bundle" \in S
    [] item = "wiki"   -> "all" \in S \/ ("wiki" \in S /\ info.has_wiki)
    [] item = "readme" -> "all" \in S \/ "readme" \in S
    [] OTHER           -> "all" \in S \/ item \in S

\* The positions of Order after p whose item the run comes to.
LaterSelected(p, S, info) ==
  { q \in (p+1)..Len(Order) : Selected(Order[q], S, info) }

Min(set) == CHOOSE x \in set : \A y \in set : x <= y

\* ---------------------------------------------------------------- the remote

\* What the remote answers a request, after GitHubAPI.request's retries:
\* a 2xx body, or the HTTPError raise_for_status raises (cli.py:86).
\* For repo_info the body carries has_wiki.
RepoInfoAnswers == {"ok_wiki", "ok_nowiki", "404", "500"}
ApiAnswers == {"ok", "404", "500"}
\* How git clone --mirror ends (cli.py:232-243): done, "Repository not
\* found" on stderr, or any other failure.
CloneAnswers == {"ok", "not_found", "failed"}
\* How git bundle create ends (cli.py:245-253): done, "Refusing to create
\* empty bundle" on stderr, or any other failure.
BundleAnswers == {"ok", "empty", "failed"}

is_http_error(answer) == answer \in {"404", "500"}


\* ------------------------------------------------------- GitHubAPI.request

\* Largest max_retries a GitHubAPI is built with.
MaxRetries == 3

\* cli.py:49, cli.py:131: the default of max_retries.
DefaultMaxRetries == 3

\* cli.py:50: the default of max_wait, in seconds.
max_wait == 100

\* A header that is absent is <<>>, a header with value v is <<v>>.
Absent == <<>>

\* The responses of the server.  reset holds x-ratelimit-reset as seconds
\* from the time of the response: int(reset_time) - time.time() (cli.py:77).
Responses ==
  [status : {200, 404, 422, 500}, remaining : {Absent, <<"0">>},
   retry_after : {Absent}, reset : {Absent}]
  \cup
  [status : {403, 429}, remaining : {Absent, <<"1">>},
   retry_after : {Absent, <<5>>}, reset : {Absent, <<10>>}]
  \cup
  [status : {403, 429}, remaining : {<<"0">>},
   retry_after : {Absent, <<5>>, <<200>>}, reset : {Absent, <<-50>>, <<10>>, <<500>>}]

NoResponse == [status |-> 0, remaining |-> Absent, retry_after |-> Absent, reset |-> Absent]

\* The calls of request: path and method (cli.py:62-64).
Calls == [path : {"repos/o/r", "repos/o/r/labels"}, method : {"GET"}]

NoCall == [path |-> "", method |-> ""]

\* rate_limited with a fault: every 403 and 429 is taken for a rate-limit signal.
rate_limited_by_status(r) ==
  r.status \in {403, 429}

\* cli.py:70
rate_limited(r) ==
  r.status \in {403, 429} /\ r.remaining = <<"0">>

\* cli.py:75: response.headers['x-ratelimit-reset'] raises KeyError when the
\* header is absent and there is no retry-after.
reset_missing(r) == r.retry_after = Absent /\ r.reset = Absent

\* cli.py:71-79
wait_for(r) ==
  LET t == IF r.retry_after # Absent THEN r.retry_after[1] ELSE r.reset[1]
  IN IF t + 1 < max_wait THEN t + 1 ELSE max_wait

\* cli.py:86: raise_for_status raises HTTPError for 4xx and 5xx.
raises_for_status(status) == status >= 400 /\ status < 600

\* ------------------------------------------------------ GitHubAPI.paginate

\* Most pages an endpoint's listing has.
MaxPages == 3

\* Most items a page holds (per_page, cli.py:104, is 100).
PerPage == 2

\* The listings an endpoint can serve: one page at least, each page with
\* zero to PerPage items.
Listings == UNION { [1..n -> 0..PerPage] : n \in 1..MaxPages }

\* The items of page p of listing l, in the order of the page.
PageItems(l, p) == [i \in 1..l[p] |-> <<p, i>>]

\* The total of the listing over all its pages.
RECURSIVE TotalCount(_)
TotalCount(l) == IF l = <<>> THEN 0 ELSE l[Len(l)] + TotalCount(SubSeq(l, 1, Len(l) - 1))

\* The 200 response to the request of page p: the body is the list of the
\* page's items, or for an endpoint with a list_key (workflows, cli.py:28)
\* an object that holds the list under that key; links holds "next" when a
\* page follows.
Serve(l, p, key) ==
  [body  |-> IF key = "none"
               THEN PageItems(l, p)
               ELSE [total_count |-> TotalCount(l), workflows |-> PageItems(l, p)],
   links |-> IF p < Len(l) THEN <<p + 1>> ELSE Absent]

\* cli.py:110-112: response.json(), and items[list_key] with a list_key.
items_of(body, key) == IF key = "none" THEN body ELSE body[key]

\* has_next with a fault: the "next" link is never followed.
has_next_ignored(r) == FALSE

\* cli.py:115: 'next' in response.links
has_next(r) == r.links # Absent

\* The HTTPErrors self.request raises (cli.py:86): the status, and whether
\* the text of the response holds "pagination is limited".
HTTPErrors == [status : {403, 404, 422, 500}, limited : BOOLEAN]

NoError == [status |-> 0, limited |-> FALSE]

\* pagination_limit_hit with a fault: every 422 is taken for the limit.
pagination_limit_hit_any_422(e) == e.status = 422

\* cli.py:120
pagination_limit_hit(e) == e.status = 422 /\ e.limited

\* ------------------------------------------------------------------- state

VARIABLES
  \* the output directory
  files,            \* item -> [state: absent | partial | complete, mtime]
  repo_info_json,   \* has_wiki as stored in repo_info.json
  disk_manifest,    \* manifest.json: [state: absent | corrupt | valid, user_agent, entries]
  \* the running process (Downloader.download_repo)
  pc,               \* idle | repo_info | item | save
  pos,              \* position in Order of the item at hand
  sub,              \* step within the item at hand
  include,          \* include_set
  manifest,         \* self.manifest: [user_agent, entries]
  original_user_agent, \* self.original_manifest["user_agent"]
  repo_info,        \* the repo_info dict: [has_wiki]
  \* what the current run did
  reqs,             \* items a request or a clone was issued for
  skipped,          \* items manifest_success reported done
  failed,           \* items whose fetch failed with an error that is not tolerated
  soft404,          \* items with expect_404 whose fetch returned 404
  saves,            \* calls of save_manifest that completed
  repoAnswer,       \* the answer to the repo-info request, "none" without one
  runEnd,           \* running | saved | repo_failed | raised | crashed | interrupted
  startEntries,     \* the manifest entries as loaded
  startFiles,       \* the files when the run started
  repeat,           \* the run before was given the same inclusion set and ended
                    \* by itself (it was not killed)
  clean,            \* repeat, and the run before saved the manifest and no fetch
                    \* of it failed
  \* one call of GitHubAPI.request
  max_retries,      \* self.max_retries
  rq_pc,            \* idle | loop | sleep | after | done
  rq_call,          \* the request asked for: [path, method]
  attempts,         \* iterations of the loop begun
  response,         \* the last response
  sleep_time,       \* the argument of time.sleep
  sent,             \* the requests handed to session.request, in order
  slept,            \* the durations time.sleep waited, in order
  result,           \* none | returned | HTTPError | KeyError | ValueError
  \* one walk of GitHubAPI.paginate
  listing,          \* the endpoint's listing: the number of items of each page
  pg_pc,            \* idle | fetch | done
  list_key,         \* the list_key argument, "none" without one
  url,              \* the page the walk is to request next
  fetched,          \* the pages requested, in order
  yielded,          \* the items yielded, in order
  pg_error,         \* the HTTPError self.request raised, NoError without one
  pg_result,        \* none | returned | HTTPError
  \* one call of Downloader.manifest_success
  ms_item,          \* the item argument
  ms_before,        \* self.manifest["entries"] when the call was made
  ms_ret,           \* none | true | false
  \* the fetch of one catalog item in Downloader.write_api_response
  served,           \* what the item's endpoint serves: a listing or an object
  fx_pc,            \* idle | requested | done
  fx_item,          \* the catalog item
  fx_mode,          \* none | paginate | request: the GitHubAPI method called
  fx_params,        \* the query parameters the call adds to the request
  fx_results        \* results, the value written to the item's file

disk == <<files, repo_info_json, disk_manifest>>
proc == <<pc, pos, sub, include, manifest, original_user_agent, repo_info>>
hist == <<reqs, skipped, failed, soft404, saves, repoAnswer, runEnd, startEntries, startFiles>>
rq == <<max_retries, rq_pc, rq_call, attempts, response, sleep_time, sent, slept, result>>
pg == <<listing, pg_pc, list_key, url, fetched, yielded, pg_error, pg_result>>
mscall == <<ms_item, ms_before, ms_ret>>
fx == <<served, fx_pc, fx_item, fx_mode, fx_params, fx_results>>
vars == <<disk, proc, hist, repeat, clean, rq, pg, mscall, fx>>

EmptyManifest == [user_agent |-> "none", entries |-> EmptyEntries]

\* An empty output directory and no run yet.
InitDownloader ==
  /\ files = [i \in Items |-> NoFile]
  /\ repo_info_json = FALSE
  /\ disk_manifest = [state |-> "absent", user_agent |-> "none", entries |-> EmptyEntries]
  /\ pc = "idle" /\ pos = 0 /\ sub = "start" /\ include = {}
  /\ manifest = EmptyManifest /\ original_user_agent = "none"
  /\ repo_info = [has_wiki |-> FALSE]
  /\ reqs = {} /\ skipped = {} /\ failed = {} /\ soft404 = {}
  /\ saves = 0 /\ repoAnswer = "none" /\ runEnd = "none"
  /\ startEntries = EmptyEntries
  /\ startFiles = [i \in Items |-> NoFile]
  /\ repeat = FALSE
  /\ clean = FALSE

InitRequest ==
  /\ rq_pc = "idle"
  /\ rq_call = NoCall
  /\ attempts = 0
  /\ response = NoResponse
  /\ sleep_time = 0
  /\ sent = <<>>
  /\ slept = <<>>
  /\ result = "none"

\* No walk of paginate has begun.
InitPaginate ==
  /\ pg_pc = "idle"
  /\ list_key = "none"
  /\ url = 0
  /\ fetched = <<>>
  /\ yielded = <<>>
  /\ pg_error = NoError
  /\ pg_result = "none"

\* No endpoint body, and no results.
NoBody == [kind |-> "none"]

\* No fetch of a catalog item has begun.
InitFetch ==
  /\ fx_pc = "idle"
  /\ fx_item = "none"
  /\ fx_mode = "none"
  /\ fx_params = {}
  /\ fx_results = NoBody

\* No call of manifest_success outside a run.
InitManifestSuccess ==
  /\ ms_item = "none"
  /\ ms_before = EmptyEntries
  /\ ms_ret = "none"

Init ==
  /\ InitDownloader
  /\ InitRequest
  /\ max_retries = DefaultMaxRetries
  /\ InitPaginate /\ listing = <<>>
  /\ InitManifestSuccess
  /\ InitFetch /\ served = NoBody

CurItem == IF pc = "repo_info" THEN "repo_info" ELSE Order[pos]

\* The run goes on to the next selected item after position p, or to the save.
GoNext(p, info) ==
  /\ sub' = "start"
  /\ IF LaterSelected(p, include, info) = {}
       THEN pc' = "save" /\ pos' = 0
       ELSE pc' = "item" /\ pos' = Min(LaterSelected(p, include, info))

\* download_repo returns or an exception leaves it.
EndRun(how) ==
  /\ pc' = "idle" /\ pos' = 0 /\ sub' = "start"
  /\ runEnd' = how


\* ----------------------------------------------------- download_repo, start

\* cli.py:157-158: manifest.json exists and its text is not JSON (a file
\* that was being written when the process was killed): json.loads raises
\* JSONDecodeError, which nothing catches.
load_raises(d) == d.state = "corrupt"

\* cli.py:154-162, where json.loads does not raise: the manifest read from
\* manifest.json, or the empty manifest when there is no such file.
load_manifest(d) ==
  IF d.state = "valid"
    THEN [user_agent |-> d.user_agent, entries |-> d.entries]
    ELSE EmptyManifest

\* The directory as a run that starts finds it.
at_start(d) == [d EXCEPT !.entries =
  [i \in Items |-> [d.entries[i] EXCEPT !.timestamp = older(@)]]]

\* cli.py:290-299: a run starts with inclusion set S and loads the manifest.
StartRun(S) ==
  /\ pc = "idle"
  /\ files' = [i \in Items |-> [files[i] EXCEPT !.mtime = older(@)]]
  /\ disk_manifest' = at_start(disk_manifest)
  /\ include' = S
  /\ repeat' = (S = include /\ runEnd \in {"saved", "raised", "repo_failed"})
  /\ clean' = (S = include /\ runEnd = "saved" /\ failed = {})
  /\ reqs' = {} /\ skipped' = {} /\ failed' = {} /\ soft404' = {}
  /\ saves' = 0 /\ repoAnswer' = "none"
  /\ startFiles' = files'
  /\ repo_info' = [has_wiki |-> FALSE]
  /\ manifest' = load_manifest(disk_manifest')
  /\ original_user_agent' = load_manifest(disk_manifest').user_agent
  /\ startEntries' = load_manifest(disk_manifest').entries
  /\ pos' = 0 /\ sub' = "start"
  /\ IF load_raises(disk_manifest)
       THEN pc' = "idle" /\ runEnd' = "crashed"
       ELSE pc' = "repo_info" /\ runEnd' = "running"
  /\ UNCHANGED <<repo_info_json, rq, pg, mscall, fx>>

\* ------------------------------------------------- download_repo, repo_info

\* repo_info_fetch_aborts with a fault: only the 404 ends the run.
aborts_on_404_only(answer) == answer = "404"

\* cli.py:315-321: an HTTPError of the repo-info fetch ends the run.
repo_info_fetch_aborts(answer) == is_http_error(answer)

\* cli.py:304-309: repo_info.json exists and is used as the repo info.
RepoInfoCached ==
  /\ pc = "repo_info" /\ sub = "start"
  /\ exists(files["repo_info"])
  /\ IF files["repo_info"].state = "partial"
       THEN \* json.loads raises on the truncated file (cli.py:307)
            /\ EndRun("crashed")
            /\ UNCHANGED <<manifest, repo_info, skipped>>
       ELSE /\ repo_info' = [has_wiki |-> repo_info_json]
            /\ manifest' = [manifest EXCEPT !.entries =
                 manifest_success(manifest.entries, "repo_info", files["repo_info"]).entries]
            /\ skipped' = skipped \cup {"repo_info"}
            /\ runEnd' = runEnd
            /\ GoNext(0, [has_wiki |-> repo_info_json])
  /\ UNCHANGED <<disk, include, original_user_agent, reqs, failed, soft404, saves,
                 repoAnswer, startEntries, startFiles, repeat, clean, rq, pg, mscall, fx>>

\* cli.py:310-314: repo_info.json does not exist; the repo info is requested.
RepoInfoRequest ==
  /\ pc = "repo_info" /\ sub = "start"
  /\ ~exists(files["repo_info"])
  /\ reqs' = reqs \cup {"repo_info"}
  /\ sub' = "requested"
  /\ UNCHANGED <<disk, pc, pos, include, manifest,
                 original_user_agent, repo_info, skipped, failed, soft404, saves,
                 repoAnswer, runEnd, startEntries, startFiles, repeat, clean, rq, pg, mscall, fx>>

\* cli.py:314-322: the answer.  An HTTPError ends the run; otherwise the
\* manifest entry is recorded, before repo_info.json is written.
RepoInfoAnswer ==
  /\ pc = "repo_info" /\ sub = "requested"
  /\ \E a \in RepoInfoAnswers :
       /\ repoAnswer' = a
       /\ IF repo_info_fetch_aborts(a)
         THEN /\ EndRun("repo_failed")
              /\ UNCHANGED <<manifest, repo_info>>
         ELSE /\ repo_info' = [has_wiki |-> (a = "ok_wiki")]
              /\ manifest' = [manifest EXCEPT !.entries =
                   update_manifest(manifest.entries, "repo_info", "success", "now")]
              /\ sub' = "fetched"
              /\ UNCHANGED <<pc, pos, runEnd>>
  /\ UNCHANGED <<disk, include, original_user_agent,
                 reqs, skipped, failed, soft404, saves, startEntries, startFiles,
                 repeat, clean, rq, pg, mscall, fx>>

\* ------------------------------------------------------------ writing a file

\* path.write_text (cli.py:200, 279, 325) opens the file, which creates or
\* truncates it, and then writes the text.
WriteBegin ==
  /\ pc \in {"repo_info", "item"} /\ sub = "fetched"
  /\ files' = [files EXCEPT ![CurItem] = [state |-> "partial", mtime |-> "now"]]
  /\ sub' = "writing"
  /\ UNCHANGED <<repo_info_json, disk_manifest,
                 pc, pos, include, manifest, original_user_agent, repo_info,
                 hist, repeat, clean, rq, pg, mscall, fx>>

\* The text is written.  After repo_info.json (cli.py:325) the run goes on
\* to the items; after an item's file its manifest entry is recorded.
WriteEnd ==
  /\ pc \in {"repo_info", "item"} /\ sub = "writing"
  /\ files' = [files EXCEPT ![CurItem] = [state |-> "complete", mtime |-> "now"]]
  /\ IF pc = "repo_info"
       THEN /\ repo_info_json' = repo_info.has_wiki
            /\ GoNext(0, repo_info)
       ELSE /\ sub' = "written"
            /\ UNCHANGED <<repo_info_json, pc, pos>>
  /\ UNCHANGED <<disk_manifest,
                 include, manifest, original_user_agent, repo_info,
                 hist, repeat, clean, rq, pg, mscall, fx>>

\* cli.py:201, 256, 280: update_manifest(item, "success") after the file is
\* in place.
RecordSuccess ==
  /\ pc = "item" /\ sub = "written"
  /\ manifest' = [manifest EXCEPT !.entries =
       update_manifest(manifest.entries, CurItem, "success", "now")]
  /\ GoNext(pos, repo_info)
  /\ UNCHANGED <<disk, include, original_user_agent,
                 repo_info, hist, repeat, clean, rq, pg, mscall, fx>>

\* ------------------------------------------------------- write_api_response

\* cli.py:204: the 404 of an item with expect_404 is tolerated.
tolerated(item, answer) == answer = "404" /\ Endpoint(item).expect_404

\* The start of write_api_response (cli.py:186-198), download_readme
\* (cli.py:258-272) and download_git_repo (cli.py:212-234): the item is
\* skipped when manifest_success says so; otherwise its request, or its
\* clone, is issued.
ItemStart ==
  /\ pc = "item" /\ sub = "start"
  /\ LET item == CurItem
         ms == manifest_success(manifest.entries, item, files[item])
     IN IF ms.done
          THEN /\ manifest' = [manifest EXCEPT !.entries = ms.entries]
               /\ skipped' = skipped \cup {item}
               /\ GoNext(pos, repo_info)
               /\ UNCHANGED reqs
          ELSE /\ reqs' = reqs \cup {item}
               /\ sub' = "requested"
               /\ UNCHANGED <<pc, pos, manifest, skipped>>
  /\ UNCHANGED <<disk, include, original_user_agent, repo_info,
                 failed, soft404, saves, repoAnswer, runEnd, startEntries, startFiles,
                 repeat, clean, rq, pg, mscall, fx>>

\* cli.py:194-210: the answer to the request of a catalog item.
ApiAnswer ==
  /\ pc = "item" /\ sub = "requested"
  /\ CurItem \in EndpointNames
  /\ \E a \in ApiAnswers :
       IF ~is_http_error(a)
         THEN /\ sub' = "fetched"
              /\ UNCHANGED <<pc, pos, manifest, failed, soft404, runEnd>>
         ELSE IF tolerated(CurItem, a)
           THEN /\ manifest' = [manifest EXCEPT !.entries =
                     update_manifest(manifest.entries, CurItem, "not found", "now")]
                /\ soft404' = soft404 \cup {CurItem}
                /\ GoNext(pos, repo_info)
                /\ UNCHANGED <<failed, runEnd>>
           ELSE \* cli.py:208-210: recorded, then raised out of download_repo
                /\ manifest' = [manifest EXCEPT !.entries =
                     update_manifest(manifest.entries, CurItem, "error", "now")]
                /\ failed' = failed \cup {CurItem}
                /\ EndRun("raised")
                /\ UNCHANGED soft404
  /\ UNCHANGED <<disk, include, original_user_agent, repo_info,
                 reqs, skipped, saves, repoAnswer, startEntries, startFiles,
                 repeat, clean, rq, pg, mscall, fx>>

\* ---------------------------------------------------------- download_readme

\* cli.py:268-277: the answer to the readme request.  Every HTTPError is
\* recorded as "error" and the function returns.
ReadmeAnswer ==
  /\ pc = "item" /\ sub = "requested"
  /\ CurItem = "readme"
  /\ \E a \in ApiAnswers :
       IF ~is_http_error(a)
         THEN /\ sub' = "fetched"
              /\ UNCHANGED <<pc, pos, manifest, failed>>
         ELSE /\ manifest' = [manifest EXCEPT !.entries =
                   update_manifest(manifest.entries, "readme", "error", "now")]
              /\ failed' = failed \cup {"readme"}
              /\ GoNext(pos, repo_info)
  /\ UNCHANGED <<disk, include, original_user_agent, repo_info,
                 reqs, skipped, soft404, saves, repoAnswer, runEnd, startEntries,
                 startFiles, repeat, clean, rq, pg, mscall, fx>>

\* -------------------------------------------------------- download_git_repo

\* cli.py:231-243: git clone --mirror into the temporary directory ends.  A
\* failed clone is recorded and the function returns.
GitClone ==
  /\ pc = "item" /\ sub = "requested"
  /\ CurItem \in MirrorItems
  /\ \E a \in CloneAnswers :
       CASE a = "not_found" ->
              /\ manifest' = [manifest EXCEPT !.entries =
                   update_manifest(manifest.entries, CurItem, "not found", "now")]
              /\ GoNext(pos, repo_info)
              /\ UNCHANGED failed
         [] a = "failed" ->
              /\ manifest' = [manifest EXCEPT !.entries =
                   update_manifest(manifest.entries, CurItem, "error", "now")]
              /\ failed' = failed \cup {CurItem}
              /\ GoNext(pos, repo_info)
         [] OTHER ->
              /\ sub' = "cloned"
              /\ UNCHANGED <<pc, pos, manifest, failed>>
  /\ UNCHANGED <<disk, include, original_user_agent, repo_info,
                 reqs, skipped, soft404, saves, repoAnswer, runEnd, startEntries,
                 startFiles, repeat, clean, rq, pg, mscall, fx>>

\* cli.py:244-253: git bundle create writes the bundle in the temporary
\* directory.  An empty repository is recorded as "not found"; any other
\* failure is raised out of download_repo, with no manifest entry.
GitBundle ==
  /\ pc = "item" /\ sub = "cloned"
  /\ \E a \in BundleAnswers :
       CASE a = "empty" ->
              /\ manifest' = [manifest EXCEPT !.entries =
                   update_manifest(manifest.entries, CurItem, "not found", "now")]
              /\ GoNext(pos, repo_info)
              /\ UNCHANGED <<failed, runEnd>>
         [] a = "failed" ->
              /\ failed' = failed \cup {CurItem}
              /\ EndRun("raised")
              /\ UNCHANGED manifest
         [] OTHER ->
              /\ sub' = "bundled"
              /\ UNCHANGED <<pc, pos, manifest, failed, runEnd>>
  /\ UNCHANGED <<disk, include, original_user_agent, repo_info,
                 reqs, skipped, soft404, saves, repoAnswer, startEntries, startFiles,
                 repeat, clean, rq, pg, mscall, fx>>

\* GitRename with a fault: the bundle is written at the destination path
\* itself, as the JSON files are, and not renamed onto it.
GitWriteInPlace ==
  /\ pc = "item" /\ sub = "bundled"
  /\ files' = [files EXCEPT ![CurItem] = [state |-> "partial", mtime |-> "now"]]
  /\ sub' = "writing"
  /\ UNCHANGED <<repo_info_json, disk_manifest,
                 pc, pos, include, manifest, original_user_agent, repo_info,
                 hist, repeat, clean, rq, pg, mscall, fx>>

\* cli.py:255: the finished bundle is renamed onto the destination path.
GitRename ==
  /\ pc = "item" /\ sub = "bundled"
  /\ files' = [files EXCEPT ![CurItem] = [state |-> "complete", mtime |-> "now"]]
  /\ sub' = "written"
  /\ UNCHANGED <<repo_info_json, disk_manifest,
                 pc, pos, include, manifest, original_user_agent, repo_info,
                 hist, repeat, clean, rq, pg, mscall, fx>>

\* ------------------------------------------------------------ save_manifest

\* cli.py:146-152: the user agent is stamped, and manifest.json is opened
\* for writing, which truncates it.
SaveBegin ==
  /\ pc = "save" /\ sub = "start"
  /\ manifest' = IF needs_stamp(manifest, original_user_agent)
                   THEN [manifest EXCEPT !.user_agent = CurrentUserAgent]
                   ELSE manifest
  /\ disk_manifest' = [disk_manifest EXCEPT !.state = "corrupt"]
  /\ sub' = "writing"
  /\ UNCHANGED <<files, repo_info_json, pc, pos, include,
                 original_user_agent, repo_info, hist, repeat, clean, rq, pg, mscall, fx>>

\* The manifest is written; download_repo returns (cli.py:348-349).
SaveEnd ==
  /\ pc = "save" /\ sub = "writing"
  /\ disk_manifest' = [state |-> "valid", user_agent |-> manifest.user_agent,
                       entries |-> manifest.entries]
  /\ saves' = saves + 1
  /\ EndRun("saved")
  /\ UNCHANGED <<files, repo_info_json, include, manifest,
                 original_user_agent, repo_info, reqs, skipped, failed, soft404,
                 repoAnswer, startEntries, startFiles, repeat, clean, rq, pg, mscall, fx>>

\* ------------------------------------------------------------ environment

\* The process is killed: what it held in memory is gone, the directory
\* stays as it is.
Interrupt ==
  /\ pc # "idle"
  /\ EndRun("interrupted")
  /\ include' = {}
  /\ manifest' = EmptyManifest /\ original_user_agent' = "none"
  /\ repo_info' = [has_wiki |-> FALSE]
  /\ reqs' = {} /\ skipped' = {} /\ failed' = {} /\ soft404' = {}
  /\ saves' = 0 /\ repoAnswer' = "none"
  /\ startEntries' = EmptyEntries
  /\ startFiles' = [i \in Items |-> NoFile]
  /\ repeat' = FALSE /\ clean' = FALSE
  /\ UNCHANGED <<disk, rq, pg, mscall, fx>>

Next ==
  \/ \E S \in IncludeSets : StartRun(S)
  \/ RepoInfoCached
  \/ RepoInfoRequest
  \/ RepoInfoAnswer
  \/ WriteBegin
  \/ WriteEnd
  \/ RecordSuccess
  \/ ItemStart
  \/ ApiAnswer
  \/ ReadmeAnswer
  \/ GitClone
  \/ GitBundle
  \/ GitRename
  \/ SaveBegin
  \/ SaveEnd
  \/ Interrupt

Spec == Init /\ [][Next]_vars


\* ===================================================================
\* Properties of download_repo (checked under Spec)
\* ===================================================================

\* Repo identity is resolved in the run at hand.
Resolved == "repo_info" \in skipped \/ (repoAnswer # "none" /\ ~is_http_error(repoAnswer))

\* The run at hand ended by itself: download_repo returned, or an exception
\* of an item's fetch left it.
Ended == pc = "idle" /\ runEnd \in {"saved", "repo_failed", "raised"}

\* Items the run at hand came to.
Processed == skipped \cup reqs

\* C1: in every run in which repo identity is resolved, the manifest is
\* saved exactly once at the end of the run, also when the fetch of an item
\* failed with an error that is not tolerated.
C1_SavedOnceAtRunEnd ==
  (Ended /\ Resolved) => saves = 1

\* C2: when the fetch of a selected item X fails with an error that is not
\* tolerated, every selected item Y after X is still processed in the run.
C2_IterationNotAborted ==
  Ended =>
    \A p \in 1..Len(Order) : \A q \in (p+1)..Len(Order) :
      ( /\ Order[p] \in failed
        /\ Selected(Order[q], include, repo_info) )
      => Order[q] \in Processed

\* C3 (as claimed): a run given the same inclusion set as the run before it,
\* which ended by itself in whatever way, issues no request and no clone, and
\* saves the manifest entries it loaded.
C3_SecondRunIdle_Original ==
  repeat => /\ reqs = {}
            /\ (runEnd = "saved" => disk_manifest.entries = startEntries)

\* C3 (amended): a run given the same inclusion set as the run before it,
\* when that run saved the manifest and no fetch of it failed, issues no
\* request and no clone, and saves the manifest entries it loaded, with
\* their statuses and timestamps.
C3_SecondRunIdle ==
  clean => /\ reqs = {}
           /\ (runEnd = "saved" => disk_manifest.entries = startEntries)

\* A second run after a clean one has ended, having skipped an item recorded
\* as "not found" and an item recorded as "success".
C3_Witness ==
  /\ clean /\ pc = "idle" /\ runEnd = "saved"
  /\ \E i \in skipped : startEntries[i].status = "not found"
  /\ \E i \in skipped \ {"repo_info"} : startEntries[i].status = "success"

\* C4: an item whose manifest entry is "success" or "not found" when the run
\* starts is skipped: no request and no clone is issued for it, its file is
\* left as it was, and its manifest entry keeps its status and timestamp.
C4_DoneItemsSkipped ==
  \A i \in Items :
    startEntries[i].status \in {"success", "not found"} =>
      /\ i \notin reqs
      /\ files[i] = startFiles[i]
      /\ manifest.entries[i] = startEntries[i]
      /\ (runEnd = "saved" => disk_manifest.entries[i] = startEntries[i])

\* A run has come to an item recorded as "not found" and to an item recorded
\* as "success", and has saved the manifest.
C4_Witness ==
  /\ pc = "idle" /\ runEnd = "saved"
  /\ \E i \in skipped : startEntries[i].status = "not found"
  /\ \E i \in skipped : startEntries[i].status = "success" /\ i \in MirrorItems

\* C5 (as claimed): an item whose manifest entry is "error" when the run
\* starts is never skipped, whatever the state of its file.
C5_ErrorRetried_Original ==
  \A i \in Items :
    startEntries[i].status = "error" => i \notin skipped

\* C5 (amended): an item whose manifest entry is "error" when the run starts
\* and whose file does not exist is never skipped: when the run comes to it,
\* its fetch is attempted again.
C5_ErrorRetried ==
  \A i \in Items :
    (startEntries[i].status = "error" /\ ~exists(startFiles[i])) =>
      /\ i \notin skipped
      /\ (i \in Processed => i \in reqs)

\* A run has issued the request again for an item recorded as "error".
C5_Witness ==
  \E i \in Items :
    /\ startEntries[i].status = "error" /\ ~exists(startFiles[i])
    /\ i \in reqs

\* C6: the saved manifest never holds "success" for an item whose file is
\* missing or partially written, whatever runs were killed before.
C6_SuccessMeansCompleteFile ==
  \A i \in Items :
    (disk_manifest.state = "valid" /\ disk_manifest.entries[i].status = "success")
      => files[i].state = "complete"

\* C7: the tolerated 404 of an item with expect_404 is recorded as "not
\* found" and leaves a placeholder file for the item.
C7_Soft404Placeholder ==
  \A i \in soft404 :
    /\ manifest.entries[i].status = "not found"
    /\ files[i].state = "complete"

\* C8: when the repo-info fetch fails, the run issues no other request and
\* no clone and leaves every file as it was; and no other item is requested
\* before repo identity is resolved.
C8_RepoInfoGate ==
  /\ is_http_error(repoAnswer) =>
       /\ reqs = {"repo_info"}
       /\ files = startFiles
       /\ pc = "idle" /\ runEnd = "repo_failed"
  /\ (reqs \ {"repo_info"} # {}) => Resolved

\* A run has ended on a failed repo-info fetch.
C8_Witness ==
  /\ pc = "idle" /\ runEnd = "repo_failed"
  /\ is_http_error(repoAnswer)
  /\ ~exists(files["repo_info"])


\* ===================================================================
\* GitHubAPI.request (cli.py:62-87)
\* ===================================================================

downloader == <<disk, proc, hist, repeat, clean>>

\* cli.py:62-64: request is called.
RqCall ==
  /\ rq_pc = "idle"
  /\ \E c \in Calls : rq_call' = c
  /\ rq_pc' = "loop"
  /\ UNCHANGED <<max_retries, attempts, response, sleep_time, sent, slept, result,
                 downloader, pg, mscall, fx>>

\* cli.py:66-84: one iteration of the loop, up to time.sleep: the request is
\* sent and the response looked at.
RqSend ==
  /\ rq_pc = "loop"
  /\ attempts < max_retries
  /\ attempts' = attempts + 1
  /\ sent' = Append(sent, rq_call)
  /\ \E r \in Responses :
       /\ response' = r
       /\ IF rate_limited(r)
            THEN IF reset_missing(r)
                   THEN /\ rq_pc' = "done" /\ result' = "KeyError"
                        /\ UNCHANGED sleep_time
                   ELSE /\ rq_pc' = "sleep" /\ sleep_time' = wait_for(r)
                        /\ UNCHANGED result
            ELSE \* cli.py:84: break
                 /\ rq_pc' = "after"
                 /\ UNCHANGED <<sleep_time, result>>
  /\ UNCHANGED <<max_retries, rq_call, slept, downloader, pg, mscall, fx>>

\* cli.py:81-82: time.sleep, which raises ValueError on a negative duration,
\* then continue: the next iteration, or the end of the range.
RqSleep ==
  /\ rq_pc = "sleep"
  /\ IF sleep_time < 0
       THEN /\ rq_pc' = "done" /\ result' = "ValueError"
            /\ UNCHANGED slept
       ELSE /\ slept' = Append(slept, sleep_time)
            /\ rq_pc' = IF attempts < max_retries THEN "loop" ELSE "after"
            /\ UNCHANGED result
  /\ UNCHANGED <<max_retries, rq_call, attempts, response, sleep_time, sent, downloader, pg, mscall, fx>>

\* cli.py:86-87: raise_for_status, or the response is returned.
RqFinish ==
  /\ rq_pc = "after"
  /\ rq_pc' = "done"
  /\ result' = IF raises_for_status(response.status) THEN "HTTPError" ELSE "returned"
  /\ UNCHANGED <<max_retries, rq_call, attempts, response, sleep_time, sent, slept,
                 downloader, pg, mscall, fx>>

InitRq ==
  /\ InitDownloader
  /\ InitRequest
  /\ max_retries \in 1..MaxRetries
  /\ InitPaginate /\ listing = <<>>
  /\ InitManifestSuccess
  /\ InitFetch /\ served = NoBody

NextRq ==
  \/ RqCall
  \/ RqSend
  \/ RqSleep
  \/ RqFinish

SpecRequest == InitRq /\ [][NextRq]_vars


\* ===================================================================
\* Properties of GitHubAPI.request (checked under SpecRequest)
\* ===================================================================

\* A rate-limit signal: status 403 or 429 and x-ratelimit-remaining "0".
RateLimitSignal(r) ==
  (r.status = 403 \/ r.status = 429) /\ r.remaining = <<"0">>

Successful(r) == r.status >= 200 /\ r.status <= 299

\* C9: request issues at most max_retries requests; it issues a further
\* request, and sleeps, only after a rate-limit signal; the first response
\* that is no rate-limit signal ends the loop with no sleep after it; and an
\* error is raised whenever the final response is not successful.
C9_BoundedRateLimitRetry ==
  /\ Len(sent) <= max_retries
  /\ Len(sent) = attempts
  /\ (rq_pc = "loop" /\ attempts > 0) => RateLimitSignal(response)
  /\ rq_pc = "sleep" => RateLimitSignal(response)
  /\ (attempts > 0 /\ ~RateLimitSignal(response)) =>
       /\ rq_pc \in {"after", "done"}
       /\ Len(slept) < attempts
  /\ (rq_pc = "done" /\ ~Successful(response)) => result # "returned"
  /\ (rq_pc = "done" /\ result = "returned") => Successful(response)

\* request has retried after two rate-limit signals and ended on a 500,
\* which it raised.
C9_Witness ==
  /\ rq_pc = "done"
  /\ Len(sent) = 3 /\ Len(slept) = 2
  /\ response.status = 500
  /\ result = "HTTPError"

\* C10: every sleep is followed by a retry of the same request: when
\* request ends, it has slept as many times as it has retried, and every
\* request it sent is the one it was called with.
C10_SleepsEqualRetries ==
  rq_pc = "done" =>
    /\ Len(slept) = Len(sent) - 1
    /\ \A k \in 1..Len(sent) : sent[k] = rq_call

\* The wait the backoff is to take for a rate-limit signal r: the retry-after
\* seconds when that directive is present, otherwise the seconds until the
\* reset time and zero when that time has passed; one second more; at most
\* max_wait.
ClaimedWait(r) ==
  LET base == IF r.retry_after # Absent
                THEN r.retry_after[1]
                ELSE IF r.reset[1] > 0 THEN r.reset[1] ELSE 0
  IN IF base + 1 <= max_wait THEN base + 1 ELSE max_wait

\* C11: for every rate-limit signal that carries a retry-after or a reset
\* time, the duration handed to time.sleep is min(retry_after + 1, max_wait),
\* or min(max(0, reset - now) + 1, max_wait) without a retry-after; it is
\* never negative, also when the reset time lies in the past.
C11_BackoffWait ==
  /\ rq_pc = "sleep" =>
       /\ sleep_time = ClaimedWait(response)
       /\ sleep_time >= 0
  /\ result # "ValueError"


\* ===================================================================
\* GitHubAPI.paginate (cli.py:89-123)
\* ===================================================================

\* cli.py:103-105: paginate is called, with or without a list_key, and the
\* walk starts at the first page.
PgCall ==
  /\ pg_pc = "idle"
  /\ \E key \in {"none", "workflows"} : list_key' = key
  /\ url' = 1
  /\ pg_pc' = "fetch"
  /\ UNCHANGED <<listing, fetched, yielded, pg_error, pg_result, downloader, rq, mscall, fx>>

\* cli.py:108-123: one turn of the loop.  self.request returns the page, or
\* raises an HTTPError (after its own retries, cli.py:86); the items of the
\* page are yielded and the "next" link followed.  The HTTPError of the
\* pagination limit ends the walk; any other is raised.
PgFetch ==
  /\ pg_pc = "fetch"
  /\ fetched' = Append(fetched, url)
  /\ \/ LET r == Serve(listing, url, list_key)
        IN /\ yielded' = yielded \o items_of(r.body, list_key)
           /\ IF has_next(r)
                THEN /\ url' = r.links[1]
                     /\ UNCHANGED <<pg_pc, pg_result>>
                ELSE /\ pg_pc' = "done" /\ pg_result' = "returned"
                     /\ UNCHANGED url
           /\ UNCHANGED pg_error
     \/ \E e \in HTTPErrors :
          /\ pg_error' = e
          /\ pg_pc' = "done"
          /\ pg_result' = IF pagination_limit_hit(e) THEN "returned" ELSE "HTTPError"
          /\ UNCHANGED <<url, yielded>>
  /\ UNCHANGED <<listing, list_key, downloader, rq, mscall, fx>>

InitPg ==
  /\ InitDownloader
  /\ InitRequest
  /\ max_retries = DefaultMaxRetries
  /\ InitPaginate /\ listing \in Listings
  /\ InitManifestSuccess
  /\ InitFetch /\ served = NoBody

NextPg ==
  \/ PgCall
  \/ PgFetch

SpecPaginate == InitPg /\ [][NextPg]_vars


\* ===================================================================
\* Properties of GitHubAPI.paginate (checked under SpecPaginate)
\* ===================================================================

\* The items of the pages 1..n of listing l, in page order.
RECURSIVE ItemsUpTo(_, _)
ItemsUpTo(l, n) == IF n = 0 THEN <<>> ELSE ItemsUpTo(l, n - 1) \o PageItems(l, n)

\* C12: over a chain of pages linked by "next" links and served without
\* error, paginate requests each page exactly once and in order, makes no
\* request after the response that carries no "next" link, and ends having
\* yielded exactly the items of all the pages, once each, in page order.
C12_PaginationComplete ==
  /\ Len(fetched) <= Len(listing)
  /\ \A k \in 1..Len(fetched) : fetched[k] = k
  /\ (pg_pc = "fetch" /\ pg_error = NoError) =>
       /\ Len(fetched) < Len(listing)
       /\ yielded = ItemsUpTo(listing, Len(fetched))
  /\ (pg_pc = "done" /\ pg_error = NoError) =>
       /\ pg_result = "returned"
       /\ Len(fetched) = Len(listing)
       /\ yielded = ItemsUpTo(listing, Len(listing))

\* A walk over three pages, with a list_key, has ended without error and
\* has yielded items of more than one page.
C12_Witness ==
  /\ pg_pc = "done" /\ pg_error = NoError /\ pg_result = "returned"
  /\ list_key = "workflows"
  /\ Len(listing) >= 3 /\ listing[1] > 0 /\ listing[3] > 0
  /\ Len(yielded) >= 3

\* C13: when the fetch of page k fails with HTTP 422 and a "pagination is
\* limited" message, paginate ends normally having yielded exactly the
\* items of the pages before k; any other HTTP error is raised to the caller.
C13_PaginationLimitTruncation ==
  (pg_pc = "done" /\ pg_error # NoError) =>
    IF pg_error.status = 422 /\ pg_error.limited
      THEN /\ pg_result = "returned"
           /\ yielded = ItemsUpTo(listing, Len(fetched) - 1)
      ELSE pg_result = "HTTPError"

\* A walk has been cut by the pagination limit at its third page, after two
\* pages that held items.
C13_Witness ==
  /\ pg_pc = "done" /\ pg_result = "returned"
  /\ pg_error = [status |-> 422, limited |-> TRUE]
  /\ Len(fetched) = 3
  /\ listing[1] > 0 /\ listing[2] > 0
  /\ yielded = ItemsUpTo(listing, 2)


\* ===================================================================
\* Further properties of download_repo (checked under Spec)
\* ===================================================================

\* C14: a manifest.json that exists and is not valid JSON is not fatal: the
\* run that finds it loads the empty manifest and goes on as a fresh run; no
\* run ends on an exception of load_manifest.
C14_CorruptManifestNotFatal ==
  (pc = "idle" /\ disk_manifest.state = "corrupt") => runEnd # "crashed"

\* C15: a mirror item whose clone or bundle step fails in any way other
\* than "Repository not found" and "Refusing to create empty bundle" is
\* recorded as "error" and the failure is raised out of the run; those two
\* failures are recorded as "not found" and are no failure of the run.
C15_MirrorFailureClassified ==
  \A i \in MirrorItems :
    /\ i \in failed =>
         /\ manifest.entries[i] = [status |-> "error", timestamp |-> "now"]
         /\ pc = "idle" /\ runEnd = "raised"
    /\ manifest.entries[i] = [status |-> "not found", timestamp |-> "now"] =>
         i \notin failed

\* C16: the destination path of a mirror bundle either does not exist or
\* holds a complete bundle, in every state and whatever was killed or failed
\* before; while the clone and the bundle are made the destination does not
\* exist; and "success" is held for a mirror item, in memory or in the saved
\* manifest, only with the complete bundle in place.
C16_AtomicMirrorWrite ==
  \A i \in MirrorItems :
    /\ files[i].state \in {"absent", "complete"}
    /\ (pc = "item" /\ CurItem = i /\ sub \in {"requested", "cloned", "bundled"}) =>
         files[i].state = "absent"
    /\ manifest.entries[i].status = "success" => files[i].state = "complete"
    /\ (disk_manifest.state = "valid" /\ disk_manifest.entries[i].status = "success") =>
         files[i].state = "complete"

\* The bundle of the repository is in place and recorded, and the run has
\* ended on a failure of the wiki's bundle step, with no wiki bundle at the
\* destination.
C16_Witness ==
  /\ pc = "idle" /\ runEnd = "raised" /\ "wiki" \in failed
  /\ files["bundle"] = [state |-> "complete", mtime |-> "now"]
  /\ manifest.entries["bundle"] = [status |-> "success", timestamp |-> "now"]
  /\ files["wiki"].state = "absent"

\* The items a run given the inclusion set S may touch.
Named(S) == S \cup {"repo_info"}

\* C17: a run whose inclusion set does not hold "all" requests, writes and
\* records only repo_info and the items the set names: every other item has
\* no request, its file as it was and its manifest entry as loaded.  And a
\* run given {labels, languages} on an empty directory, with every fetch
\* successful, leaves exactly repo_info.json, labels.json and languages.json
\* and a saved manifest with exactly the entries repo_info, labels and
\* languages, all "success".
C17_SelectionFrame ==
  /\ (include # {} /\ "all" \notin include) =>
       \A i \in Items \ Named(include) :
         /\ i \notin Processed
         /\ files[i] = startFiles[i]
         /\ manifest.entries[i] = startEntries[i]
  /\ ( /\ include = {"labels", "languages"}
       /\ startFiles = [i \in Items |-> NoFile] /\ startEntries = EmptyEntries
       /\ pc = "idle" /\ runEnd = "saved" /\ failed = {} ) =>
       /\ \A i \in Items :
            files[i].state = IF i \in Named(include) THEN "complete" ELSE "absent"
       /\ disk_manifest.state = "valid"
       /\ \A i \in Items :
            disk_manifest.entries[i].status = IF i \in Named(include) THEN "success" ELSE "none"

\* A run given {labels, languages} on an empty directory has saved the
\* manifest after fetching both.
C17_Witness ==
  /\ include = {"labels", "languages"}
  /\ startFiles = [i \in Items |-> NoFile]
  /\ pc = "idle" /\ runEnd = "saved" /\ failed = {}
  /\ reqs = {"repo_info", "labels", "languages"}
  /\ disk_manifest.entries["languages"] = [status |-> "success", timestamp |-> "now"]

\* C18: with has_wiki false or absent in the repo info, whatever the
\* inclusion set ("all" too), the run makes no clone of the wiki repository
\* and records no "wiki" manifest entry.
C18_WikiOnlyWhenPresent ==
  (Resolved /\ ~repo_info.has_wiki) =>
    /\ "wiki" \notin reqs
    /\ manifest.entries["wiki"] = startEntries["wiki"]


\* ===================================================================
\* Runs on a directory that an earlier release has written
\* ===================================================================

\* The user_agent an earlier release of the tool has stamped (cli.py:150
\* with another __version__).
OldUserAgent == "gitspoke/old"

\* The directory an earlier release has left after a run given
\* {labels, languages} in which every fetch succeeded.
InitOldArchive ==
  /\ files = [i \in Items |->
       IF i \in {"repo_info", "labels", "languages"}
         THEN [state |-> "complete", mtime |-> "before"] ELSE NoFile]
  /\ repo_info_json \in BOOLEAN
  /\ disk_manifest =
       [state |-> "valid", user_agent |-> OldUserAgent,
        entries |-> [i \in Items |->
          IF i \in {"repo_info", "labels", "languages"}
            THEN [status |-> "success", timestamp |-> "before"] ELSE NoEntry]]
  /\ pc = "idle" /\ pos = 0 /\ sub = "start" /\ include = {}
  /\ manifest = EmptyManifest /\ original_user_agent = "none"
  /\ repo_info = [has_wiki |-> FALSE]
  /\ reqs = {} /\ skipped = {} /\ failed = {} /\ soft404 = {}
  /\ saves = 0 /\ repoAnswer = "none" /\ runEnd = "none"
  /\ startEntries = EmptyEntries
  /\ startFiles = [i \in Items |-> NoFile]
  /\ repeat = FALSE
  /\ clean = FALSE

\* The runs start on an empty directory or on the directory of the earlier
\* release.
InitUpgrade ==
  /\ InitDownloader \/ InitOldArchive
  /\ InitRequest
  /\ max_retries = DefaultMaxRetries
  /\ InitPaginate /\ listing = <<>>
  /\ InitManifestSuccess
  /\ InitFetch /\ served = NoBody

SpecUpgrade == InitUpgrade /\ [][Next]_vars

\* C19: save_manifest stamps the user_agent of the running tool exactly
\* when the manifest has changed since it was loaded or holds no
\* user_agent: a run that adds or changes an entry saves the manifest with
\* the current user_agent; a run that changes nothing, on a manifest with a
\* user_agent, saves the user_agent it loaded.
C19_UserAgentStamp ==
  (pc = "idle" /\ runEnd = "saved") =>
    disk_manifest.user_agent =
      IF original_user_agent = "none" \/ disk_manifest.entries # startEntries
        THEN CurrentUserAgent
        ELSE original_user_agent


\* ===================================================================
\* Downloader.manifest_success (cli.py:164-176)
\* ===================================================================

\* The values of a manifest entry and of a file.
EntryValues ==
  {NoEntry} \cup [status : {"success", "not found", "error"}, timestamp : {"before", "now"}]

FileValues ==
  {NoFile} \cup [state : {"partial", "complete"}, mtime : {"before", "now"}]

\* The items whose entry and file the calls are tried on in every
\* combination; the other items have no entry and no file.
Probed == {"bundle", "labels"}

\* cli.py:164-176: manifest_success(item, path) is called, with the path of
\* the item's file.
ManifestSuccessCall ==
  /\ ms_ret = "none"
  /\ \E it \in Items :
       LET r == manifest_success(manifest.entries, it, files[it])
       IN /\ ms_item' = it
          /\ ms_before' = manifest.entries
          /\ manifest' = [manifest EXCEPT !.entries = r.entries]
          /\ ms_ret' = IF r.done THEN "true" ELSE "false"
  /\ UNCHANGED <<disk, pc, pos, sub, include, original_user_agent, repo_info,
                 hist, repeat, clean, rq, pg, fx>>

\* A Downloader with a manifest loaded and a directory, in every
\* combination of entry and file for the probed items.
InitMs ==
  /\ \E e \in [Probed -> EntryValues], f \in [Probed -> FileValues] :
       /\ manifest = [user_agent |-> "none",
                      entries |-> [i \in Items |-> IF i \in Probed THEN e[i] ELSE NoEntry]]
       /\ files = [i \in Items |-> IF i \in Probed THEN f[i] ELSE NoFile]
  /\ repo_info_json = FALSE
  /\ disk_manifest = [state |-> "absent", user_agent |-> "none", entries |-> EmptyEntries]
  /\ pc = "idle" /\ pos = 0 /\ sub = "start" /\ include = {}
  /\ original_user_agent = "none"
  /\ repo_info = [has_wiki |-> FALSE]
  /\ reqs = {} /\ skipped = {} /\ failed = {} /\ soft404 = {}
  /\ saves = 0 /\ repoAnswer = "none" /\ runEnd = "none"
  /\ startEntries = EmptyEntries
  /\ startFiles = [i \in Items |-> NoFile]
  /\ repeat = FALSE
  /\ clean = FALSE
  /\ InitRequest
  /\ max_retries = DefaultMaxRetries
  /\ InitPaginate /\ listing = <<>>
  /\ InitManifestSuccess
  /\ InitFetch /\ served = NoBody

NextMs == ManifestSuccessCall

SpecManifestSuccess == InitMs /\ [][NextMs]_vars

\* C20: manifest_success called with the path of the item's file: with no
\* entry and the file on disk it returns true and records "success" with
\* the modification time of the file; with no entry and no file it returns
\* false and leaves the manifest as it was; with an entry that is not
\* "error" it returns true and leaves the manifest as it was.  The entries
\* of the other items are never touched.
C20_ManifestSuccessFallback ==
  ms_ret # "none" =>
    LET e == ms_before[ms_item]
        f == files[ms_item]
    IN /\ \A j \in Items \ {ms_item} : manifest.entries[j] = ms_before[j]
       /\ (e.status = "none" /\ f.state # "absent") =>
            /\ ms_ret = "true"
            /\ manifest.entries[ms_item] = [status |-> "success", timestamp |-> f.mtime]
       /\ (e.status = "none" /\ f.state = "absent") =>
            /\ ms_ret = "false"
            /\ manifest.entries = ms_before
       /\ e.status \in {"success", "not found"} =>
            /\ ms_ret = "true"
            /\ manifest.entries = ms_before

\* A call has backfilled the entry of an item from a file written earlier,
\* next to another item's "error" entry.
C20_Witness ==
  /\ ms_ret = "true" /\ ms_item = "labels"
  /\ ms_before["labels"] = NoEntry
  /\ files["labels"] = [state |-> "complete", mtime |-> "before"]
  /\ manifest.entries["labels"] = [status |-> "success", timestamp |-> "before"]
  /\ manifest.entries["bundle"].status = "error"


\* ===================================================================
\* The fetch in Downloader.write_api_response (cli.py:194-200)
\* ===================================================================

\* The JSON objects an endpoint can serve, each as the sequence of its keys.
Objects == { <<>>, <<"k1">>, <<"k1", "k2">> }

\* What an endpoint serves: a listing over linked pages, or one JSON object.
Served ==
  [kind : {"list"}, listing : Listings] \cup [kind : {"object"}, keys : Objects]

\* cli.py:196: list(self.api.paginate(endpoint)) over a walk without error.
\* Over a listing the walk yields the items of all pages (PgFetch); over an
\* object the one response has no "next" link, and "yield from items"
\* (cli.py:113) iterates the object, which yields its keys.
paginate_all(b) ==
  IF b.kind = "list"
    THEN [kind |-> "list", items |-> ItemsUpTo(b.listing, Len(b.listing))]
    ELSE [kind |-> "list", items |-> b.keys]

\* cli.py:198-199: self.api.request(endpoint).json(): the body of the one
\* response, which for a listing is its first page.
request_json(b) ==
  IF b.kind = "list"
    THEN [kind |-> "list", items |-> PageItems(b.listing, 1)]
    ELSE [kind |-> "object", keys |-> b.keys]

\* cli.py:182, 343-345: the paginate argument write_api_response gets for the
\* catalog row e: the row's option, and True for a row without that option.
fetch_paginated(e) == e.paginate

\* cli.py:195-198, 104: write_api_response comes to the fetch of a catalog
\* item and calls paginate, which adds per_page to the query, or request.
FetchCall ==
  /\ fx_pc = "idle"
  /\ \E i \in 1..Len(endpoints) :
       /\ fx_item' = endpoints[i].name
       /\ fx_mode' = IF fetch_paginated(endpoints[i]) THEN "paginate" ELSE "request"
       /\ fx_params' = IF fetch_paginated(endpoints[i]) THEN {"per_page"} ELSE {}
  /\ fx_pc' = "requested"
  /\ UNCHANGED <<served, fx_results, downloader, rq, pg, mscall>>

\* cli.py:196-200: the call returns and results is what json.dumps writes.
FetchResult ==
  /\ fx_pc = "requested"
  /\ fx_results' = IF fx_mode = "paginate" THEN paginate_all(served) ELSE request_json(served)
  /\ fx_pc' = "done"
  /\ UNCHANGED <<served, fx_item, fx_mode, fx_params, downloader, rq, pg, mscall>>

InitFx ==
  /\ InitDownloader
  /\ InitRequest
  /\ max_retries = DefaultMaxRetries
  /\ InitPaginate /\ listing = <<>>
  /\ InitManifestSuccess
  /\ InitFetch /\ served \in Served

NextFx ==
  \/ FetchCall
  \/ FetchResult

SpecFetch == InitFx /\ [][NextFx]_vars

\* C21: the fetch of each catalog item is made in the mode the catalog table
\* gives it: pages and languages by one direct request, with no per_page
\* parameter, and the object served is stored as it is; every other item
\* through paginate.
C21_FetchModeMatchesCatalog ==
  fx_pc # "idle" =>
    IF fx_item \in {"pages", "languages"}
      THEN /\ fx_mode = "request"
           /\ "per_page" \notin fx_params
           /\ (fx_pc = "done" /\ served.kind = "object") =>
                fx_results = [kind |-> "object", keys |-> served.keys]
      ELSE fx_mode = "paginate"

====
